---------------------------- MODULE Spec2Model ----------------------------
(***************************************************************************)
(* A model of src/main.py: the in-memory record store LOG_DF, the upload   *)
(* handler (read_csv, standardize_columns, to_datetime, replace), the      *)
(* search handler and the five detectors.                                  *)
(*                                                                         *)
(* Text is a TLA+ string; a character is a string of length one.  A cell   *)
(* of a DataFrame is a record [k, s, n]: k is the kind of value ("str",    *)
(* "int", "float", "ts", "nan"), s its text (a str, or the decimal digits  *)
(* of an int64/float64, which keeps ten-digit numbers exact), n the        *)
(* seconds since 1970-01-01 00:00:00 of a timestamp.                       *)
(***************************************************************************)
EXTENDS Integers, Sequences, FiniteSets, TLC

VARIABLES LOG_DF, inflight, gl, resp, lastOk

vars == <<LOG_DF, inflight, gl, resp, lastOk>>

(***************************************************************************)
(* Bounds of the model.                                                    *)
(***************************************************************************)
MaxRows == 3

MaxInflight == 2

MaxCols == 2

MaxIngestRows == 2

(***************************************************************************)
(* Configuration of the program.                                           *)
(***************************************************************************)
CanonicalFields ==
    <<"call_timestamp", "a_party_number", "b_party_number", "duration", "ip_address">>

COLUMN_ALIASES ==
    [call_timestamp |-> <<"timestamps", "call time", "call_time", "start_time">>,
     a_party_number |-> <<"a party", "caller", "from_number", "a_party">>,
     b_party_number |-> <<"b_party", "callee", "to_number", "b party">>,
     duration       |-> <<"call duration", "duration_seconds", "length">>,
     ip_address     |-> <<"ip", "source_ip", "user_ip", "ip address">>]

MALICIOUS_NUMBERS == {"9999999999", "8888888888"}

SUSPICIOUS_IPS == {"198.51.100.5", "203.0.113.10", "192.0.2.25"}

(***************************************************************************)
(* Text.                                                                   *)
(***************************************************************************)
Range(f) == {f[i] : i \in DOMAIN f}

Char(s, i) == SubSeq(s, i, i)

Digits == {"0", "1", "2", "3", "4", "5", "6", "7", "8", "9"}

DigitVal(c) ==
    CASE c = "0" -> 0 [] c = "1" -> 1 [] c = "2" -> 2 [] c = "3" -> 3
      [] c = "4" -> 4 [] c = "5" -> 5 [] c = "6" -> 6 [] c = "7" -> 7
      [] c = "8" -> 8 [] c = "9" -> 9

IsDigits(s) == Len(s) > 0 /\ \A i \in 1..Len(s) : Char(s, i) \in Digits

\* int(s) of a short digit string (durations, clock fields).
RECURSIVE ToNat(_)
ToNat(s) ==
    IF Len(s) = 0 THEN 0
    ELSE 10 * ToNat(SubSeq(s, 1, Len(s) - 1)) + DigitVal(Char(s, Len(s)))

\* The decimal text of the integer a digit string denotes: leading zeros go.
RECURSIVE StripZeros(_)
StripZeros(s) ==
    IF Len(s) > 1 /\ Char(s, 1) = "0" THEN StripZeros(SubSeq(s, 2, Len(s))) ELSE s

Whitespace == {" ", "\t"}

\* str.strip()
RECURSIVE StrStrip(_)
StrStrip(s) ==
    IF Len(s) = 0 THEN s
    ELSE IF Char(s, 1) \in Whitespace THEN StrStrip(SubSeq(s, 2, Len(s)))
    ELSE IF Char(s, Len(s)) \in Whitespace THEN StrStrip(SubSeq(s, 1, Len(s) - 1))
    ELSE s

LowerChar(c) ==
    CASE c = "A" -> "a" [] c = "B" -> "b" [] c = "C" -> "c" [] c = "D" -> "d"
      [] c = "E" -> "e" [] c = "F" -> "f" [] c = "G" -> "g" [] c = "H" -> "h"
      [] c = "I" -> "i" [] c = "J" -> "j" [] c = "K" -> "k" [] c = "L" -> "l"
      [] c = "M" -> "m" [] c = "N" -> "n" [] c = "O" -> "o" [] c = "P" -> "p"
      [] c = "Q" -> "q" [] c = "R" -> "r" [] c = "S" -> "s" [] c = "T" -> "t"
      [] c = "U" -> "u" [] c = "V" -> "v" [] c = "W" -> "w" [] c = "X" -> "x"
      [] c = "Y" -> "y" [] c = "Z" -> "z" [] OTHER -> c

\* str.lower()
RECURSIVE StrLower(_)
StrLower(s) ==
    IF Len(s) = 0 THEN s
    ELSE LowerChar(Char(s, 1)) \o StrLower(SubSeq(s, 2, Len(s)))

(***************************************************************************)
(* Cells and DataFrames.  A DataFrame is [none, columns, index, rows]:     *)
(* the column labels, the index label of each row and the rows, each a     *)
(* sequence of cells as long as columns.  None is the value of LOG_DF      *)
(* before the first ingest.                                                *)
(***************************************************************************)
Str(s) == [k |-> "str", s |-> s, n |-> 0]

Int64(s) == [k |-> "int", s |-> StripZeros(s), n |-> 0]

Float64(s) == [k |-> "float", s |-> StripZeros(s), n |-> 0]

Timestamp(n) == [k |-> "ts", s |-> "", n |-> n]

NaN == [k |-> "nan", s |-> "", n |-> 0]

None == [none |-> TRUE, columns |-> <<>>, index |-> <<>>, rows |-> <<>>]

Frame(columns, index, rows) ==
    [none |-> FALSE, columns |-> columns, index |-> index, rows |-> rows]

\* `c in df.columns`
HasCol(df, c) == c \in Range(df.columns)

\* The position of the column labelled c (the first, should several carry it).
ColIdx(df, c) == CHOOSE j \in 1..Len(df.columns) :
    /\ df.columns[j] = c
    /\ \A i \in 1..(j - 1) : df.columns[i] # c

\* df[c] at row position r
Cell(df, r, c) == df.rows[r][ColIdx(df, c)]

\* The positions i of 1..n with keep[i], ascending.
RECURSIVE Positions(_, _)
Positions(keep, n) ==
    IF n = 0 THEN <<>>
    ELSE IF keep[n] THEN Append(Positions(keep, n - 1), n)
    ELSE Positions(keep, n - 1)

\* df[mask]: the rows whose mask is true, in order, with their index labels.
Take(df, ps) ==
    Frame(df.columns, [i \in 1..Len(ps) |-> df.index[ps[i]]],
          [i \in 1..Len(ps) |-> df.rows[ps[i]]])

BoolIndex(df, mask) == Take(df, Positions(mask, Len(df.rows)))

\* df.to_dict('records'): the rows, without their index labels.
ToRecords(df) == df.rows

(***************************************************************************)
(* An uploaded file: whether its bytes decode as UTF-8, its header line    *)
(* and its data lines, each a sequence of cell texts as long as the header *)
(* ("" is an empty cell; an empty header is an empty file).                *)
(***************************************************************************)
CsvFile(header, rows) == [decodable |-> TRUE, header |-> header, rows |-> rows]

Undecodable == [decodable |-> FALSE, header |-> <<>>, rows |-> <<>>]

EmptyFile == CsvFile(<<>>, <<>>)

\* pandas' default na_values: the cell texts read_csv reads as missing.
NaValues ==
    {"", "#N/A", "#N/A N/A", "#NA", "-1.#IND", "-1.#QNAN", "-NaN", "-nan",
     "1.#IND", "1.#QNAN", "<NA>", "N/A", "NA", "NULL", "NaN", "None", "n/a",
     "nan", "null"}

\* read_csv renames the second and later occurrences of a header label x to
\* x.1, x.2, ...
DedupLabel(header, j) ==
    LET before == Cardinality({i \in 1..(j - 1) : header[i] = header[j]})
    IN  IF before = 0 THEN header[j] ELSE header[j] \o "." \o ToString(before)

\* The dtype_map of upload_csv: the labels read as 'object'.
potential_number_cols ==
    Range(COLUMN_ALIASES.a_party_number) \cup Range(COLUMN_ALIASES.b_party_number)

\* The dtype read_csv gives column j: 'object' when dtype_map names its
\* label; otherwise inferred from the cells: int64 when every cell is a
\* number, float64 when the cells are numbers and missing values (or all
\* missing), object otherwise.
ColumnDtype(labels, rows, j) ==
    LET present == {r \in 1..Len(rows) : rows[r][j] \notin NaValues}
    IN  IF labels[j] \in potential_number_cols THEN "object"
        ELSE IF \E r \in present : ~IsDigits(rows[r][j]) THEN "object"
        ELSE IF present = 1..Len(rows) THEN "int64"
        ELSE "float64"

ReadCell(text, dtype) ==
    IF text \in NaValues THEN NaN
    ELSE IF dtype = "int64" THEN Int64(text)
    ELSE IF dtype = "float64" THEN Float64(text)
    ELSE Str(text)

\* pd.read_csv(io.StringIO(...), dtype=dtype_map) of a decodable, non-empty
\* file.
read_csv(f) ==
    LET labels == [j \in 1..Len(f.header) |-> DedupLabel(f.header, j)]
    IN  Frame(labels,
              [r \in 1..Len(f.rows) |-> r - 1],
              [r \in 1..Len(f.rows) |->
                  [j \in 1..Len(labels) |->
                      ReadCell(f.rows[r][j], ColumnDtype(labels, f.rows, j))]])

(***************************************************************************)
(* standardize_columns.                                                    *)
(***************************************************************************)
\* df.columns.str.strip().str.lower()
CleanLabels(columns) == [j \in 1..Len(columns) |-> StrLower(StrStrip(columns[j]))]

\* The inner loop: the first alias of the list that is a column label, 0 if
\* there is none.
FirstAlias(columns, alias_list) ==
    LET found == {a \in 1..Len(alias_list) : alias_list[a] \in Range(columns)}
    IN  IF found = {} THEN 0 ELSE CHOOSE a \in found : \A b \in found : a <= b

\* df.rename(columns={alias: standard_name}): every column labelled alias.
RenameLabel(columns, alias, standard_name) ==
    [j \in 1..Len(columns) |-> IF columns[j] = alias THEN standard_name ELSE columns[j]]

\* The outer loop over COLUMN_ALIASES.items(), from field k on.
RECURSIVE RenameFrom(_, _)
RenameFrom(columns, k) ==
    IF k > Len(CanonicalFields) THEN columns
    ELSE LET standard_name == CanonicalFields[k]
             alias_list == COLUMN_ALIASES[standard_name]
             a == FirstAlias(columns, alias_list)
         IN  RenameFrom(IF a = 0 THEN columns
                        ELSE RenameLabel(columns, alias_list[a], standard_name),
                        k + 1)

StandardLabels(columns) == RenameFrom(CleanLabels(columns), 1)

standardize_columns(df) == Frame(StandardLabels(df.columns), df.index, df.rows)

(***************************************************************************)
(* pd.to_datetime of the call_timestamp column.  The texts of the model    *)
(* are "1970-01-DD HH:MM:SS" or no date at all; a number is nanoseconds    *)
(* since the epoch; a missing value becomes NaT.                           *)
(***************************************************************************)
IsDateText(s) ==
    /\ Len(s) = 19
    /\ SubSeq(s, 1, 8) = "1970-01-"
    /\ Char(s, 11) = " " /\ Char(s, 14) = ":" /\ Char(s, 17) = ":"
    /\ \A i \in {9, 10, 12, 13, 15, 16, 18, 19} : Char(s, i) \in Digits
    /\ ToNat(SubSeq(s, 9, 10)) \in 1..31
    /\ ToNat(SubSeq(s, 12, 13)) \in 0..23
    /\ ToNat(SubSeq(s, 15, 16)) \in 0..59
    /\ ToNat(SubSeq(s, 18, 19)) \in 0..59

DateSeconds(s) ==
    (ToNat(SubSeq(s, 9, 10)) - 1) * 86400 + ToNat(SubSeq(s, 12, 13)) * 3600
        + ToNat(SubSeq(s, 15, 16)) * 60 + ToNat(SubSeq(s, 18, 19))

CanParse(cell) == cell.k # "str" \/ IsDateText(cell.s)

ParseCell(cell) ==
    IF cell.k = "nan" THEN NaN
    ELSE IF cell.k = "str" THEN Timestamp(DateSeconds(cell.s))
    ELSE Timestamp(IF Len(cell.s) <= 9 THEN 0
                   ELSE ToNat(SubSeq(cell.s, 1, Len(cell.s) - 9)))

\* df['call_timestamp'] = pd.to_datetime(df['call_timestamp']) raises when
\* a text is no date, and when several columns carry the label (to_datetime
\* of a DataFrame wants year, month and day columns).
TimestampsParse(df) ==
    /\ Cardinality({j \in 1..Len(df.columns) : df.columns[j] = "call_timestamp"}) = 1
    /\ \A r \in 1..Len(df.rows) : CanParse(Cell(df, r, "call_timestamp"))

WithTimestamps(df) ==
    LET c == ColIdx(df, "call_timestamp")
    IN  Frame(df.columns, df.index,
              [r \in 1..Len(df.rows) |->
                  [j \in 1..Len(df.columns) |->
                      IF j = c THEN ParseCell(df.rows[r][j]) ELSE df.rows[r][j]]])

(***************************************************************************)
(* upload_csv, from the bytes read to the value of LOG_DF.                 *)
(***************************************************************************)
\* content.decode('utf-8') and read_csv succeed.
Readable(f) == f.decodable /\ Len(f.header) > 0

\* Lines 58-63 run without raising.
Ingestable(f) ==
    /\ Readable(f)
    /\ LET std == standardize_columns(read_csv(f))
       IN  HasCol(std, "call_timestamp") => TimestampsParse(std)

\* df_standardized at line 65.
Ingested(f) ==
    LET std == standardize_columns(read_csv(f))
    IN  IF HasCol(std, "call_timestamp") THEN WithTimestamps(std) ELSE std

\* Mutant: LOG_DF is assigned before the timestamps are parsed.
StoreAfterUploadEarly(store, f) ==
    IF Ingestable(f) THEN Ingested(f)
    ELSE IF Readable(f) THEN standardize_columns(read_csv(f))
    ELSE store

\* LOG_DF after upload_csv of f: assigned at line 65, after every step that
\* can raise.
StoreAfterUpload(store, f) == IF Ingestable(f) THEN Ingested(f) ELSE store

(***************************************************************************)
(* What a handler answers: the HTTP status and the "results" list.         *)
(* 400 and 404 are the HTTPExceptions the handlers raise; 500 is what the  *)
(* framework answers when a handler raises anything else.                  *)
(***************************************************************************)
Ok(results) == [status |-> 200, results |-> results]

Fail(status) == [status |-> status, results |-> <<>>]

(***************************************************************************)
(* get_logs.  The query parameter is absent (None) or a text.              *)
(***************************************************************************)
NoSearch == [given |-> FALSE, text |-> ""]

Search(text) == [given |-> TRUE, text |-> text]

\* Series.astype(str) of one cell: str(NaN) is 'nan', a float64 prints with
\* its fraction.
AsText(cell) ==
    IF cell.k = "nan" THEN "nan"
    ELSE IF cell.k = "float" THEN cell.s \o ".0"
    ELSE cell.s

\* Series.str.contains(pat) compiles pat as a regular expression (regex=True
\* is the default).  The patterns of the model are made of literal
\* characters, "." (any character) and "+" (one or more of the atom before
\* it); a "+" with no atom before it does not compile (re.error).
RegexCompiles(pat) == Char(pat, 1) # "+"

AtomMatches(atom, c) == atom = "." \/ atom = c

\* Whether pat from its k-th character on matches a prefix of s from its
\* i-th character on.
RECURSIVE MatchFrom(_, _, _, _)
MatchFrom(pat, k, s, i) ==
    IF k > Len(pat) THEN TRUE
    ELSE IF k < Len(pat) /\ Char(pat, k + 1) = "+"
    THEN \E j \in (i + 1)..(Len(s) + 1) :
            /\ \A t \in i..(j - 1) : AtomMatches(Char(pat, k), Char(s, t))
            /\ MatchFrom(pat, k + 2, s, j)
    ELSE /\ i <= Len(s)
         /\ AtomMatches(Char(pat, k), Char(s, i))
         /\ MatchFrom(pat, k + 1, s, i + 1)

\* re.search(pat, s)
RegexSearch(pat, s) == \E i \in 1..(Len(s) + 1) : MatchFrom(pat, 1, s, i)

\* Lines 78-88 on the DataFrame bound at line 77.
GetLogsOf(df, search) ==
    IF ~(search.given /\ search.text # "") THEN Ok(ToRecords(df))
    ELSE LET search_cols ==
                 {c \in {"a_party_number", "b_party_number"} : HasCol(df, c)}
             mask == [r \in 1..Len(df.rows) |->
                         \E c \in search_cols :
                             RegexSearch(search.text, AsText(Cell(df, r, c)))]
         IN  IF search_cols = {} THEN Ok(<<>>)
             ELSE IF ~RegexCompiles(search.text) THEN Fail(500)
             ELSE Ok(ToRecords(BoolIndex(df, mask)))

\* Mutant: the handler reads the global again where it uses the DataFrame:
\* the search columns come from one read, the rows from a later one (a
\* column the later value lacks is a KeyError).
GetLogsReadAgain(checked, bound, search) ==
    IF checked.none THEN Ok(<<>>)
    ELSE IF ~(search.given /\ search.text # "") THEN Ok(ToRecords(bound))
    ELSE LET search_cols ==
                 {c \in {"a_party_number", "b_party_number"} : HasCol(checked, c)}
             mask == [r \in 1..Len(bound.rows) |->
                         \E c \in search_cols :
                             RegexSearch(search.text, AsText(Cell(bound, r, c)))]
         IN  IF search_cols = {} THEN Ok(<<>>)
             ELSE IF \E c \in search_cols : ~HasCol(bound, c) THEN Fail(500)
             ELSE IF ~RegexCompiles(search.text) THEN Fail(500)
             ELSE Ok(ToRecords(BoolIndex(bound, mask)))

\* get_logs, given the value LOG_DF had at line 74 and the one it had at
\* line 77.
GetLogs(checked, bound, search) ==
    IF checked.none THEN Ok(<<>>) ELSE GetLogsOf(bound, search)

(***************************************************************************)
(* detect_odd_hours                                                        *)
(***************************************************************************)
\* Series.dt.hour
Hour(cell) == (cell.n \div 3600) % 24

\* Mutant: a range whose start is after its end wraps around midnight.
BetweenWrapping(cell, left, right) ==
    /\ cell.k = "ts"
    /\ IF left <= right THEN left <= Hour(cell) /\ Hour(cell) <= right
       ELSE Hour(cell) >= left \/ Hour(cell) <= right

\* Series.between(left, right): inclusive on both sides, false on NaT.
Between(cell, left, right) ==
    cell.k = "ts" /\ left <= Hour(cell) /\ Hour(cell) <= right

DetectOddHours(df, start_hour, end_hour) ==
    IF df.none \/ ~HasCol(df, "call_timestamp") THEN Fail(404)
    ELSE Ok(ToRecords(BoolIndex(df,
            [r \in 1..Len(df.rows) |->
                Between(Cell(df, r, "call_timestamp"), start_hour, end_hour)])))

(***************************************************************************)
(* detect_high_volume                                                      *)
(***************************************************************************)
\* Series.value_counts()[v]: missing values are not counted.
ValueCount(df, c, v) ==
    Cardinality({r \in 1..Len(df.rows) : Cell(df, r, c) = v})

\* Mutant: call_counts >= threshold.
HighVolumeNumbersAtLeast(df, threshold) ==
    {v \in {Cell(df, r, "a_party_number") : r \in 1..Len(df.rows)} :
        v.k # "nan" /\ ValueCount(df, "a_party_number", v) >= threshold}

\* call_counts[call_counts > threshold].index
HighVolumeNumbers(df, threshold) ==
    {v \in {Cell(df, r, "a_party_number") : r \in 1..Len(df.rows)} :
        v.k # "nan" /\ ValueCount(df, "a_party_number", v) > threshold}

DetectHighVolume(df, threshold) ==
    IF df.none \/ ~HasCol(df, "a_party_number") THEN Fail(404)
    ELSE Ok(ToRecords(BoolIndex(df,
            [r \in 1..Len(df.rows) |->
                Cell(df, r, "a_party_number") \in HighVolumeNumbers(df, threshold)])))

(***************************************************************************)
(* detect_malicious_calls and detect_suspicious_ips                        *)
(***************************************************************************)
\* Series.isin(a set of str): a number or a missing value is no member.
IsIn(cell, texts) == cell.k = "str" /\ cell.s \in texts

\* pd.concat([a, b]): the rows of a, then those of b, index labels kept.
Concat(a, b) == Frame(a.columns, a.index \o b.index, a.rows \o b.rows)

\* DataFrame.drop_duplicates(): a row is dropped when an earlier row holds
\* the same values in every column; the index labels are not compared.
DropDuplicates(df) ==
    BoolIndex(df, [r \in 1..Len(df.rows) |->
                      \A q \in 1..(r - 1) : df.rows[q] # df.rows[r]])

DetectMaliciousCalls(df) ==
    IF df.none THEN Fail(404)
    ELSE IF ~HasCol(df, "a_party_number") \/ ~HasCol(df, "b_party_number")
    THEN Fail(404)
    ELSE LET malicious_a == BoolIndex(df, [r \in 1..Len(df.rows) |->
                                IsIn(Cell(df, r, "a_party_number"), MALICIOUS_NUMBERS)])
             malicious_b == BoolIndex(df, [r \in 1..Len(df.rows) |->
                                IsIn(Cell(df, r, "b_party_number"), MALICIOUS_NUMBERS)])
         IN  Ok(ToRecords(DropDuplicates(Concat(malicious_a, malicious_b))))

DetectSuspiciousIps(df) ==
    IF df.none \/ ~HasCol(df, "ip_address") THEN Fail(404)
    ELSE Ok(ToRecords(BoolIndex(df,
            [r \in 1..Len(df.rows) |->
                IsIn(Cell(df, r, "ip_address"), SUSPICIOUS_IPS)])))

(***************************************************************************)
(* detect_same_pattern                                                     *)
(***************************************************************************)
Perms(n) == {p \in [1..n -> 1..n] : \A i, j \in 1..n : p[i] = p[j] => i = j}

\* Whether row q may stand before row r in sort_values(by='call_timestamp'):
\* ascending; NaT last, in the original order.
MayPrecede(df, q, r) ==
    LET tq == Cell(df, q, "call_timestamp")
        tr == Cell(df, r, "call_timestamp")
    IN  IF tq.k = "ts" /\ tr.k = "ts" THEN tq.n <= tr.n
        ELSE IF tq.k = "ts" THEN TRUE
        ELSE IF tr.k = "ts" THEN FALSE
        ELSE q < r

\* The row orders sort_values(by='call_timestamp') can give.  Its default
\* kind is 'quicksort', which is not a stable sort: rows with equal
\* timestamps come in whatever order the sort of the build leaves them
\* (numpy's quicksort sorts up to 16 elements by insertion and partitions
\* longer arrays, which moves equal elements past each other).  The files
\* of the model are shorter than that, so the model takes every order of
\* the ties.
SortOrders(df) ==
    {p \in Perms(Len(df.rows)) :
        \A i, j \in 1..Len(df.rows) : i < j => MayPrecede(df, p[i], p[j])}

\* The values of the subset columns of duplicated() and the groupby key.
PairOf(df, r) == <<Cell(df, r, "a_party_number"), Cell(df, r, "b_party_number")>>

\* duplicated(subset=[...], keep=False): the rows whose pair occurs again
\* (missing values count as equal).
Duplicated(df, r) == \E q \in 1..Len(df.rows) : q # r /\ PairOf(df, q) = PairOf(df, r)

\* The keys of duplicates.groupby([...]): groupby drops the keys that hold a
\* missing value.
GroupKeys(df) ==
    {PairOf(df, r) : r \in {q \in 1..Len(df.rows) :
        /\ Duplicated(df, q)
        /\ PairOf(df, q)[1].k # "nan"
        /\ PairOf(df, q)[2].k # "nan"}}

\* The rows of one group, in the order of df_sorted.
RECURSIVE GroupRows(_, _, _, _)
GroupRows(df, order, key, n) ==
    IF n = 0 THEN <<>>
    ELSE IF PairOf(df, order[n]) = key
    THEN Append(GroupRows(df, order, key, n - 1), order[n])
    ELSE GroupRows(df, order, key, n - 1)

IsNumber(cell) == cell.k \in {"int", "float"}

Abs(x) == IF x < 0 THEN -x ELSE x

\* pattern_mask at position i of a group: diff() is missing (then inf) at
\* the first row and where either value is missing.
PatternMask(df, group, i, time_window_seconds, duration_tolerance) ==
    /\ i > 1
    /\ LET t1 == Cell(df, group[i - 1], "call_timestamp")
           t2 == Cell(df, group[i], "call_timestamp")
           d1 == Cell(df, group[i - 1], "duration")
           d2 == Cell(df, group[i], "duration")
       IN  /\ t1.k = "ts" /\ t2.k = "ts"
           /\ t2.n - t1.n <= time_window_seconds
           /\ IsNumber(d1) /\ IsNumber(d2)
           /\ Abs(ToNat(d2.s) - ToNat(d1.s)) <= duration_tolerance

\* group.index[pattern_mask | pattern_mask.shift(-1).fillna(False)]
PatternRows(df, group, time_window_seconds, duration_tolerance) ==
    {group[i] : i \in {i \in 1..Len(group) :
        \/ PatternMask(df, group, i, time_window_seconds, duration_tolerance)
        \/ /\ i < Len(group)
           /\ PatternMask(df, group, i + 1, time_window_seconds, duration_tolerance)}}

\* group['duration'].diff() raises: no such column (KeyError), or a column
\* of dtype object holding a text (TypeError).
DiffRaises(df, group) ==
    \/ ~HasCol(df, "duration")
    \/ \E i \in 1..Len(group) : Cell(df, group[i], "duration").k = "str"

\* detect_same_pattern when sort_values gives the rows in this order.  The
\* rows of the answer are LOG_DF.loc[list(set(pattern_calls))]; the model
\* lists them by ascending index label.
DetectSamePatternIn(df, order, time_window_seconds, duration_tolerance) ==
    IF df.none \/ ~HasCol(df, "call_timestamp") THEN Fail(404)
    ELSE IF ~HasCol(df, "a_party_number") \/ ~HasCol(df, "b_party_number")
    THEN Fail(500)
    ELSE LET groups == {GroupRows(df, order, key, Len(order)) : key \in GroupKeys(df)}
             pattern_calls ==
                 UNION {PatternRows(df, g, time_window_seconds, duration_tolerance) :
                           g \in groups}
         IN  IF \E g \in groups : DiffRaises(df, g) THEN Fail(500)
             ELSE Ok(ToRecords(BoolIndex(df,
                     [r \in 1..Len(df.rows) |-> r \in pattern_calls])))

\* What detect_same_pattern can answer.
DetectSamePattern(df, time_window_seconds, duration_tolerance) ==
    IF df.none \/ ~HasCol(df, "call_timestamp") THEN {Fail(404)}
    ELSE {DetectSamePatternIn(df, order, time_window_seconds, duration_tolerance) :
             order \in SortOrders(df)}

(***************************************************************************)
(* The server.  The async handlers (upload_csv, the detectors) run on the   *)
(* event loop, one at a time, and give way only at an await: upload_csv at *)
(* `await file.read()`, the detectors nowhere.  get_logs is a plain def,   *)
(* which the framework runs on a worker thread: it runs beside the event   *)
(* loop and reads the global LOG_DF twice, at line 74 and at line 77.      *)
(*                                                                         *)
(*   LOG_DF    the store                                                   *)
(*   inflight  the files of the upload_csv calls waiting at line 51        *)
(*   gl        the get_logs call between line 74 and line 77, if any       *)
(*   resp      the last answer given, with the request it answers and      *)
(*             (seen) the values LOG_DF held while the request ran         *)
(*   lastOk    the file of the last upload_csv that answered 200           *)
(***************************************************************************)
NoFile == [some |-> FALSE, file |-> EmptyFile]

SomeFile(f) == [some |-> TRUE, file |-> f]

Idle == [pc |-> "idle", search |-> NoSearch, checked |-> None, seen |-> {}]

Response(op, p1, p2, search, file, answer, seen) ==
    [op |-> op, p1 |-> p1, p2 |-> p2, search |-> search, file |-> file,
     status |-> answer.status, results |-> answer.results, seen |-> seen]

NoResponse == Response("none", 0, 0, NoSearch, EmptyFile, Fail(0), {})

Init ==
    /\ LOG_DF = None
    /\ inflight = {}
    /\ gl = Idle
    /\ resp = NoResponse
    /\ lastOk = NoFile

\* upload_csv up to `await file.read()`.
UploadBegin(files, limit) ==
    /\ Cardinality(inflight) < limit
    /\ \E f \in files \ inflight : inflight' = inflight \cup {f}
    /\ UNCHANGED <<LOG_DF, gl, resp, lastOk>>

\* upload_csv from line 51 to its answer.
UploadFinish ==
    \E f \in inflight :
        /\ inflight' = inflight \ {f}
        /\ LOG_DF' = StoreAfterUpload(LOG_DF, f)
        /\ lastOk' = IF Ingestable(f) THEN SomeFile(f) ELSE lastOk
        /\ resp' = Response("upload", 0, 0, NoSearch, f,
                            IF Ingestable(f) THEN Ok(<<>>) ELSE Fail(400), {})
        /\ gl' = IF gl.pc = "idle" THEN gl
                 ELSE [gl EXCEPT !.seen = gl.seen \cup {LOG_DF'}]

\* get_logs, line 74: `if LOG_DF is None: return`.
GetLogsBegin(searches) ==
    /\ gl.pc = "idle"
    /\ \E search \in searches :
        IF LOG_DF.none
        THEN /\ resp' = Response("logs", 0, 0, search, EmptyFile,
                                 GetLogs(LOG_DF, LOG_DF, search), {LOG_DF})
             /\ gl' = gl
        ELSE /\ gl' = [pc |-> "l77", search |-> search, checked |-> LOG_DF,
                       seen |-> {LOG_DF}]
             /\ resp' = resp
    /\ UNCHANGED <<LOG_DF, inflight, lastOk>>

\* get_logs, from line 77 (`df = LOG_DF`) to its answer.
GetLogsEnd ==
    /\ gl.pc = "l77"
    /\ resp' = Response("logs", 0, 0, gl.search, EmptyFile,
                        GetLogs(gl.checked, LOG_DF, gl.search), gl.seen)
    /\ gl' = Idle
    /\ UNCHANGED <<LOG_DF, inflight, lastOk>>

OddHours(hours) ==
    /\ \E start_hour, end_hour \in hours :
        resp' = Response("odd-hours", start_hour, end_hour, NoSearch, EmptyFile,
                         DetectOddHours(LOG_DF, start_hour, end_hour), {LOG_DF})
    /\ UNCHANGED <<LOG_DF, inflight, gl, lastOk>>

HighVolume(thresholds) ==
    /\ \E threshold \in thresholds :
        resp' = Response("high-volume", threshold, 0, NoSearch, EmptyFile,
                         DetectHighVolume(LOG_DF, threshold), {LOG_DF})
    /\ UNCHANGED <<LOG_DF, inflight, gl, lastOk>>

MaliciousCalls ==
    /\ resp' = Response("malicious-calls", 0, 0, NoSearch, EmptyFile,
                        DetectMaliciousCalls(LOG_DF), {LOG_DF})
    /\ UNCHANGED <<LOG_DF, inflight, gl, lastOk>>

SuspiciousIps ==
    /\ resp' = Response("suspicious-ips", 0, 0, NoSearch, EmptyFile,
                        DetectSuspiciousIps(LOG_DF), {LOG_DF})
    /\ UNCHANGED <<LOG_DF, inflight, gl, lastOk>>

SamePattern(windows, tolerances) ==
    /\ \E time_window_seconds \in windows, duration_tolerance \in tolerances :
        \E answer \in DetectSamePattern(LOG_DF, time_window_seconds, duration_tolerance) :
            resp' = Response("same-pattern", time_window_seconds, duration_tolerance,
                             NoSearch, EmptyFile, answer, {LOG_DF})
    /\ UNCHANGED <<LOG_DF, inflight, gl, lastOk>>

(***************************************************************************)
(* Spec: the server with every handler, over a few small files.            *)
(***************************************************************************)
CompleteFile ==
    CsvFile(<<"Call Time", "caller", "callee", "length", "ip">>,
            <<<<"1970-01-01 01:00:00", "9999999999", "5550001", "30", "198.51.100.5">>,
              <<"1970-01-01 01:01:30", "9999999999", "5550001", "33", "10.0.0.1">>>>)

TimestampOnlyFile == CsvFile(<<"timestamps">>, <<<<"1970-01-01 03:00:00">>>>)

CallerOnlyFile == CsvFile(<<"caller">>, <<<<"5550001">>, <<"5550001">>>>)

CalleeOnlyFile == CsvFile(<<"callee">>, <<<<"5550001">>>>)

PartiesFile == CsvFile(<<"caller", "callee">>, <<<<"5550002", "5550001">>>>)

IpOnlyFile == CsvFile(<<"ip">>, <<<<"203.0.113.10">>>>)

NoDurationFile ==
    CsvFile(<<"timestamps", "caller", "callee">>,
            <<<<"1970-01-01 01:00:00", "5550001", "5550002">>,
              <<"1970-01-01 01:01:00", "5550001", "5550002">>>>)

BadTimestampFile ==
    CsvFile(<<"timestamps", "caller">>,
            <<<<"1970-01-01 01:00:00", "5550001">>, <<"not-a-date", "5550002">>>>)

ServerFiles ==
    {CompleteFile, CallerOnlyFile, CalleeOnlyFile, BadTimestampFile, Undecodable,
     EmptyFile}

ServerSearches == {NoSearch, Search("5550001")}

Next ==
    \/ UploadBegin(ServerFiles, MaxInflight)
    \/ UploadFinish
    \/ GetLogsBegin(ServerSearches)
    \/ GetLogsEnd
    \/ OddHours({1})
    \/ HighVolume({1})
    \/ MaliciousCalls
    \/ SuspiciousIps
    \/ SamePattern({120}, {10})

Spec == Init /\ [][Next]_vars

(***************************************************************************)
(* The store and its readers (Spec).                                       *)
(***************************************************************************)
Answer(r) == [status |-> r.status, results |-> r.results]

QueryOps ==
    {"logs", "odd-hours", "high-volume", "malicious-calls", "suspicious-ips",
     "same-pattern"}

DetectorOps == QueryOps \ {"logs"}

\* What the request of answer r can answer when it runs, from its first line
\* to its last, against the one value d of the store.
AnswersOn(r, d) ==
    CASE r.op = "logs" -> {GetLogs(d, d, r.search)}
      [] r.op = "odd-hours" -> {DetectOddHours(d, r.p1, r.p2)}
      [] r.op = "high-volume" -> {DetectHighVolume(d, r.p1)}
      [] r.op = "malicious-calls" -> {DetectMaliciousCalls(d)}
      [] r.op = "suspicious-ips" -> {DetectSuspiciousIps(d)}
      [] r.op = "same-pattern" -> DetectSamePattern(d, r.p1, r.p2)

\* The aliases of a field, as a set.
Aliases(field) == Range(COLUMN_ALIASES[field])

\* The trimmed, lower-cased labels of a file.
TrimmedLabels(f) == [j \in 1..Len(f.header) |-> StrLower(StrStrip(f.header[j]))]

\* The earliest alias of the field's list among the labels.
EarliestAlias(labels, field) ==
    LET list == COLUMN_ALIASES[field]
        a == CHOOSE a \in 1..Len(list) :
                /\ list[a] \in Range(labels)
                /\ \A b \in 1..(a - 1) : list[b] \notin Range(labels)
    IN  list[a]

\* The columns of the file that are parsed as timestamps: the one already
\* labelled call_timestamp, and the one of the earliest alias.
TimestampColumns(f) ==
    LET labels == TrimmedLabels(f)
    IN  {j \in 1..Len(labels) :
            \/ labels[j] = "call_timestamp"
            \/ /\ Aliases("call_timestamp") \cap Range(labels) # {}
               /\ labels[j] = EarliestAlias(labels, "call_timestamp")}

\* The file has a timestamp that is no date (or two timestamp columns).
BadTimestamps(f) ==
    \/ Cardinality(TimestampColumns(f)) > 1
    \/ \E j \in TimestampColumns(f), r \in 1..Len(f.rows) :
          /\ f.rows[r][j] \notin NaValues
          /\ ~IsDigits(f.rows[r][j])
          /\ ~IsDateText(f.rows[r][j])

\* C1: after any sequence of upload_csv calls the store holds exactly the
\* normalized dataset of the last upload that succeeded (None if none did),
\* and an upload answers 400 exactly when one of its steps (decoding, CSV
\* parsing, timestamp parsing) fails, in which case the store is left as it
\* was.
C1_StoreIsLastSuccessfulIngest ==
    /\ LOG_DF = IF lastOk.some THEN Ingested(lastOk.file) ELSE None
    /\ lastOk.some => Ingestable(lastOk.file)
    /\ resp.op = "upload" =>
          /\ resp.status \in {200, 400}
          /\ resp.status = 400 <=>
                \/ ~resp.file.decodable
                \/ Len(resp.file.header) = 0
                \/ BadTimestamps(resp.file)

\* C1, witness: an upload has failed at the timestamps after another one had
\* succeeded.
C1_FailedAfterSuccess ==
    /\ lastOk.some
    /\ resp.op = "upload" /\ resp.status = 400 /\ BadTimestamps(resp.file)
    /\ ~LOG_DF.none

\* C2: whatever upload_csv does while a query runs, the answer of the query
\* (precondition check included) is the one the whole query gives on a
\* single value the store held while it ran; a query during which the store
\* did not change answers on the store as it is.
C2_QueryReadsOneDataset ==
    resp.op \in QueryOps =>
        /\ resp.seen # {}
        /\ \E d \in resp.seen : Answer(resp) \in AnswersOn(resp, d)

\* C2, witness: get_logs has answered with rows after an upload replaced the
\* store between its two reads of LOG_DF.
C2_ReplacedDuringQuery ==
    /\ resp.op = "logs" /\ resp.search.given
    /\ Cardinality(resp.seen) = 2
    /\ resp.results # <<>>

(***************************************************************************)
(* SpecDetect: every detector, over files that lack one field or another.  *)
(***************************************************************************)
DetectFiles ==
    {CompleteFile, TimestampOnlyFile, CallerOnlyFile, CalleeOnlyFile, PartiesFile,
     IpOnlyFile, NoDurationFile}

NextDetect ==
    \/ UploadBegin(DetectFiles, 1)
    \/ UploadFinish
    \/ OddHours({1, 5})
    \/ HighVolume({0, 25})
    \/ MaliciousCalls
    \/ SuspiciousIps
    \/ SamePattern({120}, {10})

SpecDetect == Init /\ [][NextDetect]_vars

RequiredFields(op) ==
    CASE op = "odd-hours" -> {"call_timestamp"}
      [] op = "high-volume" -> {"a_party_number"}
      [] op = "malicious-calls" -> {"a_party_number", "b_party_number"}
      [] op = "suspicious-ips" -> {"ip_address"}
      [] op = "same-pattern" ->
            {"call_timestamp", "a_party_number", "b_party_number", "duration"}

\* C3: a detector answers 404 (NotAvailable), and neither fails otherwise
\* nor gives results, whenever nothing has been ingested or the dataset
\* lacks one of the fields the detector requires.
C3_MissingFieldIsNotAvailable ==
    resp.op \in DetectorOps =>
        \A d \in resp.seen :
            (d.none \/ \E c \in RequiredFields(resp.op) : ~HasCol(d, c))
                => resp.status = 404

(***************************************************************************)
(* Files made of rows drawn from a set of candidate rows.  The last column *)
(* of each is the number of the line, which tells equal rows apart.        *)
(***************************************************************************)
RowSeqs(candidates, n) == UNION {[1..k -> candidates] : k \in 1..n}

Numbered(header, rows) ==
    CsvFile(Append(header, "line"),
            [r \in 1..Len(rows) |-> Append(rows[r], ToString(r))])

\* The first upload_csv of a session: the store is still empty.
FirstUpload(files) == LOG_DF.none /\ UploadBegin(files, 1)

(***************************************************************************)
(* SpecOddHours: detect_odd_hours over every file of up to MaxRows calls.  *)
(***************************************************************************)
OddHoursTexts ==
    {"1970-01-01 00:30:00", "1970-01-01 01:00:00", "1970-01-02 23:59:59", ""}

OddHoursFiles ==
    {Numbered(<<"Start_Time">>, rows) :
        rows \in RowSeqs({<<t>> : t \in OddHoursTexts}, MaxRows)}

HourBounds == {-1, 0, 1, 23, 24}

NextOddHours ==
    \/ FirstUpload(OddHoursFiles)
    \/ UploadFinish
    \/ OddHours(HourBounds)

SpecOddHours == Init /\ [][NextOddHours]_vars

\* The hour of day of row r of d, -1 where the timestamp is missing.
HourOfRow(d, r) ==
    LET t == Cell(d, r, "call_timestamp")
    IN  IF t.k = "ts" THEN (t.n % 86400) \div 3600 ELSE -1

\* The rows of d whose hour h has start <= h <= end, in the order of d.
RowsInHours(d, start, end) ==
    LET keep == {r \in 1..Len(d.rows) :
                    HourOfRow(d, r) \in 0..23
                    /\ start <= HourOfRow(d, r) /\ HourOfRow(d, r) <= end}
    IN  Take(d, Positions([r \in 1..Len(d.rows) |-> r \in keep], Len(d.rows))).rows

\* C10 as stated: the records with start_hour <= h <= end_hour, in order,
\* nothing when start_hour > end_hour, and nothing (no error) when an hour
\* bound is outside 0-23.
C10_BoundsOutsideDayGiveNothing ==
    resp.op = "odd-hours" =>
        \A d \in resp.seen :
            (~d.none /\ HasCol(d, "call_timestamp")) =>
                /\ resp.status = 200
                /\ resp.results = RowsInHours(d, resp.p1, resp.p2)
                /\ resp.p1 > resp.p2 => resp.results = <<>>
                /\ (resp.p1 \notin 0..23 \/ resp.p2 \notin 0..23) => resp.results = <<>>

\* C10, amended: the records with start_hour <= h <= end_hour, in order, for
\* all integer bounds and without error; nothing when start_hour > end_hour
\* (no wraparound), and nothing when the range holds no hour of 0-23
\* (end_hour < 0 or start_hour > 23).
C10_InclusiveRangeNoWraparound ==
    resp.op = "odd-hours" =>
        \A d \in resp.seen :
            (~d.none /\ HasCol(d, "call_timestamp")) =>
                /\ resp.status = 200
                /\ resp.results = RowsInHours(d, resp.p1, resp.p2)
                /\ resp.p1 > resp.p2 => resp.results = <<>>
                /\ (resp.p2 < 0 \/ resp.p1 > 23) => resp.results = <<>>

\* C10, witness: hours 23 to 1 were asked of a dataset with a call at hour 0
\* and nothing came back.
C10_MidnightCallNotReturned ==
    /\ resp.op = "odd-hours" /\ resp.p1 = 23 /\ resp.p2 = 1
    /\ \E d \in resp.seen :
          /\ ~d.none
          /\ \E r \in 1..Len(d.rows) : HourOfRow(d, r) = 0
    /\ resp.status = 200 /\ resp.results = <<>>

(***************************************************************************)
(* SpecHighVolume: detect_high_volume over every file of up to MaxRows     *)
(* calls of two callers (or of none).                                      *)
(***************************************************************************)
HighVolumeFiles ==
    {Numbered(<<"caller">>, rows) :
        rows \in RowSeqs({<<c>> : c \in {"5550001", "5550002", ""}}, MaxRows)}

Thresholds == {-1, 0, 1, 2}

NextHighVolume ==
    \/ FirstUpload(HighVolumeFiles)
    \/ UploadFinish
    \/ HighVolume(Thresholds)

SpecHighVolume == Init /\ [][NextHighVolume]_vars

\* How many rows of d carry the caller of row r.
CallerCount(d, r) ==
    Cardinality({q \in 1..Len(d.rows) :
        Cell(d, q, "a_party_number") = Cell(d, r, "a_party_number")})

\* C7: detect_high_volume returns exactly the records whose caller
\* identifier occurs more than threshold times in the dataset, each once and
\* in the order of the dataset (a record without a caller identifier has
\* none that occurs).
C7_StrictlyMoreThanThreshold ==
    resp.op = "high-volume" =>
        \A d \in resp.seen :
            (~d.none /\ HasCol(d, "a_party_number")) =>
                /\ resp.status = 200
                /\ resp.results =
                      Take(d, Positions([r \in 1..Len(d.rows) |->
                                  /\ Cell(d, r, "a_party_number").k # "nan"
                                  /\ CallerCount(d, r) >= resp.p1 + 1],
                               Len(d.rows))).rows

\* C7, witness: with threshold 1, a caller of exactly two records was
\* returned and a caller of exactly one record was not.
C7_BoundaryCallers ==
    /\ resp.op = "high-volume" /\ resp.p1 = 1 /\ resp.status = 200
    /\ Len(resp.results) = 2
    /\ \E d \in resp.seen :
          /\ ~d.none
          /\ \E q, r \in 1..Len(d.rows) :
                /\ Cell(d, q, "a_party_number").k = "str" /\ CallerCount(d, q) = 2
                /\ Cell(d, r, "a_party_number").k = "str" /\ CallerCount(d, r) = 1

(***************************************************************************)
(* SpecMalicious: detect_malicious_calls over every file of up to MaxRows  *)
(* calls between a malicious and an ordinary number on either side.        *)
(***************************************************************************)
MaliciousFiles ==
    {CsvFile(<<"caller", "callee">>, rows) :
        rows \in RowSeqs({<<a, b>> : a \in {"9999999999", "5550001"},
                                     b \in {"8888888888", "5550002"}}, MaxRows)}

NextMalicious ==
    \/ FirstUpload(MaliciousFiles)
    \/ UploadFinish
    \/ MaliciousCalls

SpecMalicious == Init /\ [][NextMalicious]_vars

\* The row positions of d with a malicious number on either side.
MaliciousPositions(d) ==
    {r \in 1..Len(d.rows) :
        \/ Cell(d, r, "a_party_number").s \in MALICIOUS_NUMBERS
        \/ Cell(d, r, "b_party_number").s \in MALICIOUS_NUMBERS}

\* How many times the record row stands in the sequence rows.
Occurrences(rows, row) == Cardinality({i \in 1..Len(rows) : rows[i] = row})

\* C5: detect_malicious_calls returns every row position of the dataset
\* with a malicious number on either side exactly once (equal rows at
\* different positions are each returned), and no other record.
C5_EveryMaliciousRowOnce ==
    resp.op = "malicious-calls" =>
        \A d \in resp.seen :
            (~d.none /\ HasCol(d, "a_party_number") /\ HasCol(d, "b_party_number")) =>
                /\ resp.status = 200
                /\ Len(resp.results) = Cardinality(MaliciousPositions(d))
                /\ \A r \in 1..Len(d.rows) :
                      Occurrences(resp.results, d.rows[r]) =
                          Cardinality({q \in MaliciousPositions(d) :
                                          d.rows[q] = d.rows[r]})

(***************************************************************************)
(* SpecIngest: upload_csv over files of up to MaxCols columns, labelled    *)
(* with variants of the party labels, and up to MaxIngestRows rows of      *)
(* numbers.                                                                *)
(***************************************************************************)
IngestLabels ==
    {"Caller", "caller ", "caller", "from_number", "a_party_number", "CALLEE", "notes"}

IngestHeaders ==
    {h \in UNION {[1..k -> IngestLabels] : k \in 1..MaxCols} :
        \A i, j \in 1..Len(h) : h[i] = h[j] => i = j}

IngestFiles ==
    {CsvFile(h, rows) :
        h \in IngestHeaders,
        rows \in UNION {[1..k -> UNION {[1..c -> {"9999999999", "0123"}] : c \in 1..MaxCols}]
                           : k \in 1..MaxIngestRows}}

WellFormed(f) == \A r \in 1..Len(f.rows) : Len(f.rows[r]) = Len(f.header)

NextIngest ==
    \/ FirstUpload({f \in IngestFiles : WellFormed(f)})
    \/ UploadFinish

SpecIngest == Init /\ [][NextIngest]_vars

PartyFields == {"a_party_number", "b_party_number"}

\* C6: in every ingested dataset the cells of the party columns are the
\* texts of the file, unchanged, whatever the label of the source column
\* (an alias in any casing, with spaces around it, or the canonical name).
C6_PartyCellsKeepTheirText ==
    (lastOk.some /\ ~LOG_DF.none) =>
        \A j \in 1..Len(LOG_DF.columns) :
            LOG_DF.columns[j] \in PartyFields =>
                \A r \in 1..Len(LOG_DF.rows) :
                    /\ LOG_DF.rows[r][j].k = "str"
                    /\ LOG_DF.rows[r][j].s = lastOk.file.rows[r][j]

\* C9: standardize_columns keeps the number and order of the columns; for
\* each canonical field with an alias among the trimmed, lower-cased labels
\* exactly one column is renamed to it, the one of the earliest alias of the
\* list; every other column keeps its trimmed, lower-cased label; and no two
\* columns end up with the same canonical name.
C9_OneColumnPerCanonicalField ==
    (lastOk.some /\ ~LOG_DF.none) =>
        LET labels == TrimmedLabels(lastOk.file)
            out == LOG_DF.columns
            renamed == {j \in 1..Len(labels) : out[j] # labels[j]}
        IN  /\ Len(out) = Len(labels)
            /\ \A field \in Range(CanonicalFields) :
                  IF Aliases(field) \cap Range(labels) # {}
                  THEN \E j \in renamed :
                          /\ out[j] = field
                          /\ labels[j] = EarliestAlias(labels, field)
                          /\ \A i \in renamed : out[i] = field => i = j
                  ELSE \A j \in renamed : out[j] # field
            /\ \A j \in renamed : out[j] \in Range(CanonicalFields)
            /\ \A i, j \in 1..Len(out) :
                  (out[i] = out[j] /\ out[i] \in Range(CanonicalFields)) => i = j

(***************************************************************************)
(* SpecSearch: get_logs over files of up to MaxRows calls, with both party *)
(* columns or with neither.                                                *)
(***************************************************************************)
SearchFiles ==
    {Numbered(<<"caller", "callee">>, rows) :
        rows \in RowSeqs({<<a, b>> : a \in {"5550001", ""}, b \in {"9195550", ""}},
                         MaxRows)}
    \cup {Numbered(<<"ip">>, rows) : rows \in RowSeqs({<<"10.0.0.1">>}, MaxRows)}

Searches == {NoSearch, Search("555"), Search("0001"), Search("5.5"), Search("+91")}

NextSearch ==
    \/ FirstUpload(SearchFiles)
    \/ UploadFinish
    \/ GetLogsBegin(Searches)
    \/ GetLogsEnd

SpecSearch == Init /\ [][NextSearch]_vars

\* Whether the text q occurs in the text s, character for character.
Occurs(q, s) == \E i \in 1..(Len(s) - Len(q) + 1) : SubSeq(s, i, i + Len(q) - 1) = q

\* Whether q occurs in a party value of row r of d (a missing value holds no
\* text).
RowHolds(d, r, q) ==
    \E c \in {"a_party_number", "b_party_number"} :
        /\ HasCol(d, c)
        /\ Cell(d, r, c).k = "str"
        /\ Occurs(q, Cell(d, r, c).s)

\* C8: get_logs never fails and returns, in the order of the dataset:
\* nothing when nothing has been ingested, every record when no query is
\* given, and for a query the records with a party value in which the query
\* occurs literally (none when the dataset has neither party field).
C8_LiteralSubstringSearch ==
    resp.op = "logs" =>
        /\ resp.status = 200
        /\ \E d \in resp.seen :
              resp.results =
                  IF d.none THEN <<>>
                  ELSE IF ~resp.search.given THEN d.rows
                  ELSE Take(d, Positions([r \in 1..Len(d.rows) |->
                                  RowHolds(d, r, resp.search.text)],
                               Len(d.rows))).rows

(***************************************************************************)
(* SpecPattern: detect_same_pattern over every file of up to MaxRows calls *)
(* at three instants, between two pairs, of three durations.               *)
(***************************************************************************)
PatternFiles ==
    {Numbered(<<"timestamps", "caller", "callee", "length">>, rows) :
        rows \in RowSeqs(
            {<<t, "5550001", b, dur>> :
                t \in {"1970-01-01 00:00:00", "1970-01-01 00:01:30", "1970-01-01 00:06:40"},
                b \in {"5550002", "5550003"},
                dur \in {"30", "33", "31"}},
            MaxRows)}

NextPattern ==
    \/ FirstUpload(PatternFiles)
    \/ UploadFinish
    \/ SamePattern({120}, {1, 10})

SpecPattern == Init /\ [][NextPattern]_vars

\* Row q comes before row r once the records are ordered by call_timestamp,
\* ties kept in the order of the dataset.
ComesBefore(d, q, r) ==
    LET tq == Cell(d, q, "call_timestamp").n
        tr == Cell(d, r, "call_timestamp").n
    IN  tq < tr \/ (tq = tr /\ q < r)

SamePair(d, q, r) ==
    /\ Cell(d, q, "a_party_number") = Cell(d, r, "a_party_number")
    /\ Cell(d, q, "b_party_number") = Cell(d, r, "b_party_number")

\* Row q is the immediate predecessor of row r in its group.
Precedes(d, q, r) ==
    /\ SamePair(d, q, r)
    /\ ComesBefore(d, q, r)
    /\ \A x \in 1..Len(d.rows) :
          ~(SamePair(d, x, r) /\ ComesBefore(d, q, x) /\ ComesBefore(d, x, r))

\* Row r matches its immediate predecessor q.
Repeats(d, q, r, window, tolerance) ==
    /\ Precedes(d, q, r)
    /\ Cell(d, r, "call_timestamp").n - Cell(d, q, "call_timestamp").n <= window
    /\ IsNumber(Cell(d, q, "duration")) /\ IsNumber(Cell(d, r, "duration"))
    /\ Abs(ToNat(Cell(d, r, "duration").s) - ToNat(Cell(d, q, "duration").s))
          <= tolerance

RepeatedRows(d, window, tolerance) ==
    {x \in 1..Len(d.rows) :
        \E q, r \in 1..Len(d.rows) :
            Repeats(d, q, r, window, tolerance) /\ x \in {q, r}}

\* C4: detect_same_pattern returns exactly, each once, the records that
\* match their immediate predecessor of the same pair (records ordered by
\* call_timestamp, ties in the order of the dataset) and those predecessors.
C4_ConsecutivePairsInStableOrder ==
    resp.op = "same-pattern" =>
        \A d \in resp.seen :
            (~d.none /\ \A c \in RequiredFields("same-pattern") : HasCol(d, c)) =>
                /\ resp.status = 200
                /\ Len(resp.results) = Cardinality(RepeatedRows(d, resp.p1, resp.p2))
                /\ Range(resp.results) =
                      {d.rows[r] : r \in RepeatedRows(d, resp.p1, resp.p2)}

=============================================================================
